---------------------------- MODULE Spec2Model ----------------------------
(***************************************************************************)
(* A model of package env (src/env.go): typed lookups of environment       *)
(* variables.  A string is a sequence of one-character strings.  The       *)
(* standard parsers the package calls (strconv.Atoi, time.ParseDuration,   *)
(* time.Parse, url.Parse) are modelled by what they compute on the strings *)
(* of the model: every string over Chars up to MaxLen characters, and the  *)
(* longer strings of ScenarioValues.                                       *)
(***************************************************************************)
EXTENDS Integers, Sequences, FiniteSets, TLC

\* ------------------------------------------------------------------ bounds
\* The longest environment value enumerated exhaustively over Chars.
MaxLen == 2
\* The number of lookup calls one run of the process makes.
MaxCalls == 2
\* The number of deferred registrations one run of the process makes.
MaxRegs == 2

\* ----------------------------------------------------------------- strings
Chars == {"1", "-", "s", ":"}

Strs(n) == UNION {[1..k -> Chars] : k \in 0..n}

DigitChars == <<"0", "1", "2", "3", "4", "5", "6", "7", "8", "9">>

isDigit(s, i) == i <= Len(s) /\ \E d \in 1..10 : DigitChars[d] = s[i]

DigitVal(c) == (CHOOSE d \in 1..10 : DigitChars[d] = c) - 1

Drop(s, n) == SubSeq(s, n + 1, Len(s))

HasPrefix(s, p) == Len(p) <= Len(s) /\ SubSeq(s, 1, Len(p)) = p

IsNumChar(c) == c = "." \/ \E d \in 1..10 : DigitChars[d] = c

\* The length of the longest prefix of s made of decimal digits.
RECURSIVE digitRun(_)
digitRun(s) == IF isDigit(s, 1) THEN 1 + digitRun(Tail(s)) ELSE 0

\* The length of the longest prefix of s holding no digit and no ".".
RECURSIVE unitRun(_)
unitRun(s) == IF s = <<>> \/ IsNumChar(s[1]) THEN 0 ELSE 1 + unitRun(Tail(s))

Contains(s, c) == \E i \in 1..Len(s) : s[i] = c

LastIndex(s, c) ==
    IF Contains(s, c) THEN CHOOSE i \in 1..Len(s) :
                             s[i] = c /\ \A j \in (i+1)..Len(s) : s[j] # c
    ELSE 0

\* The number a run of digits denotes (0 for the empty run).
RECURSIVE DigitsVal(_)
DigitsVal(s) ==
    IF s = <<>> THEN 0
    ELSE DigitsVal(SubSeq(s, 1, Len(s) - 1)) * 10 + DigitVal(s[Len(s)])

\* A parser's result: the value and the error ("nil" when there is none).
Ok(v) == [err |-> "nil", val |-> v]
Fail(e) == [err |-> e, val |-> 0]

\* ------------------------------------------------------------ strconv.Atoi
\* The fast path of Atoi (strings shorter than 19 characters): an optional
\* sign, then at least one character, every one a decimal digit.
Atoi(s) ==
    LET signed == s # <<>> /\ s[1] \in {"-", "+"}
        digits == IF signed THEN Tail(s) ELSE s
        n      == DigitsVal(digits)
    IN  IF digits = <<>> THEN Fail("invalid syntax")
        ELSE IF \E i \in 1..Len(digits) : ~isDigit(digits, i)
             THEN Fail("invalid syntax")
        ELSE Ok(IF s[1] = "-" THEN 0 - n ELSE n)

\* ------------------------------------------------------ time.ParseDuration
\* A time.Duration is counted in milliseconds: over the characters of the
\* model the units are ms, s, m and h (no string holds "n", "u" or ".").
unitMap ==
    [u \in {<<"m", "s">>, <<"s">>, <<"m">>, <<"h">>} |->
        CASE u = <<"m", "s">> -> 1
          [] u = <<"s">>      -> 1000
          [] u = <<"m">>      -> 60000
          [] u = <<"h">>      -> 3600000]

\* The loop of ParseDuration: one number and one unit per turn, summed in d.
RECURSIVE durationTerms(_, _)
durationTerms(s, d) ==
    IF s = <<>> THEN Ok(d)
    ELSE IF ~isDigit(s, 1) THEN Fail("invalid duration")
    ELSE LET n    == digitRun(s)
             v    == DigitsVal(SubSeq(s, 1, n))
             rest == Drop(s, n)
             i    == unitRun(rest)
             u    == SubSeq(rest, 1, i)
         IN  IF i = 0 THEN Fail("missing unit in duration")
             ELSE IF u \notin DOMAIN unitMap THEN Fail("unknown unit in duration")
             ELSE durationTerms(Drop(rest, i), d + v * unitMap[u])

ParseDuration(s) ==
    LET signed == s # <<>> /\ s[1] \in {"-", "+"}
        neg    == s # <<>> /\ s[1] = "-"
        body   == IF signed THEN Tail(s) ELSE s
        r      == durationTerms(body, 0)
    IN  IF body = <<"0">> THEN Ok(0)
        ELSE IF body = <<>> THEN Fail("invalid duration")
        ELSE IF r.err # "nil" THEN r
        ELSE Ok(IF neg THEN 0 - r.val ELSE r.val)

\* -------------------------------------------------------------- time.Parse
\* The layouts of the model hold three of time.Parse's layout elements:
\* "15" (the hour), "04" (the minute, two digits) and "1" (the month); every
\* other character of a layout stands for itself.
\* nextStdChunk: the text before the first layout element, the element, and
\* the text after it.
RECURSIVE nextStdChunk(_, _)
nextStdChunk(layout, i) ==
    IF i > Len(layout)
    THEN [prefix |-> layout, std |-> "none", suffix |-> <<>>]
    ELSE IF layout[i] = "1" /\ i < Len(layout) /\ layout[i + 1] = "5"
    THEN [prefix |-> SubSeq(layout, 1, i - 1), std |-> "stdHour",
          suffix |-> Drop(layout, i + 1)]
    ELSE IF layout[i] = "1"
    THEN [prefix |-> SubSeq(layout, 1, i - 1), std |-> "stdNumMonth",
          suffix |-> Drop(layout, i)]
    ELSE IF layout[i] = "0" /\ i < Len(layout) /\ layout[i + 1] = "4"
    THEN [prefix |-> SubSeq(layout, 1, i - 1), std |-> "stdZeroMinute",
          suffix |-> Drop(layout, i + 1)]
    ELSE nextStdChunk(layout, i + 1)

\* getnum: a number of one or two digits (of two digits exactly when fixed).
getnum(s, fixed) ==
    IF ~isDigit(s, 1) THEN [n |-> 0, rest |-> s, err |-> "errBad"]
    ELSE IF ~isDigit(s, 2)
    THEN IF fixed THEN [n |-> 0, rest |-> s, err |-> "errBad"]
         ELSE [n |-> DigitVal(s[1]), rest |-> Tail(s), err |-> "nil"]
    ELSE [n |-> DigitVal(s[1]) * 10 + DigitVal(s[2]), rest |-> Drop(s, 2),
          err |-> "nil"]

\* A time.Time of the model: year 0, day 1, second 0, UTC, and these fields
\* (January and midnight when the layout does not set them).
ZeroTime == [month |-> 1, hour |-> 0, min |-> 0]

RECURSIVE parseTime(_, _, _)
parseTime(layout, value, t) ==
    LET ch == nextStdChunk(layout, 1)
        v  == Drop(value, Len(ch.prefix))
        g  == getnum(v, ch.std = "stdZeroMinute")
    IN  IF ~HasPrefix(value, ch.prefix) THEN Fail("cannot parse")
        ELSE IF ch.std = "none"
        THEN IF v # <<>> THEN Fail("extra text") ELSE Ok(t)
        ELSE IF ch.std = "stdHour" /\ (g.n < 0 \/ 24 <= g.n)
        THEN Fail("hour out of range")
        ELSE IF ch.std = "stdZeroMinute" /\ (g.n < 0 \/ 60 <= g.n)
        THEN Fail("minute out of range")
        ELSE IF ch.std = "stdNumMonth" /\ g.err = "nil" /\ (g.n <= 0 \/ 12 < g.n)
        THEN Fail("month out of range")
        ELSE IF g.err # "nil" THEN Fail("cannot parse")
        ELSE parseTime(ch.suffix, g.rest,
                 CASE ch.std = "stdHour"       -> [t EXCEPT !.hour = g.n]
                   [] ch.std = "stdZeroMinute" -> [t EXCEPT !.min = g.n]
                   [] ch.std = "stdNumMonth"   -> [t EXCEPT !.month = g.n])

TimeParse(layout, value) == parseTime(layout, value, ZeroTime)

\* --------------------------------------------------------------- url.Parse
\* The strings of the model hold no "?", "#", "%", "@", "[", control
\* character or upper-case letter, so a URL has no query, fragment, escape or
\* user information, and its scheme is already in lower case.
Letters ==
    {"a", "b", "c", "d", "e", "f", "g", "h", "i", "j", "k", "l", "m", "n",
     "o", "p", "q", "r", "s", "t", "u", "v", "w", "x", "y", "z"}

RECURSIVE getScheme(_, _)
getScheme(rawURL, i) ==
    IF i > Len(rawURL)
    THEN [scheme |-> <<>>, path |-> rawURL, err |-> "nil"]
    ELSE IF rawURL[i] \in Letters THEN getScheme(rawURL, i + 1)
    ELSE IF isDigit(rawURL, i) \/ rawURL[i] \in {"+", "-", "."}
    THEN IF i = 1 THEN [scheme |-> <<>>, path |-> rawURL, err |-> "nil"]
         ELSE getScheme(rawURL, i + 1)
    ELSE IF rawURL[i] = ":"
    THEN IF i = 1
         THEN [scheme |-> <<>>, path |-> <<>>, err |-> "missing protocol scheme"]
         ELSE [scheme |-> SubSeq(rawURL, 1, i - 1), path |-> Drop(rawURL, i),
               err |-> "nil"]
    ELSE [scheme |-> <<>>, path |-> rawURL, err |-> "nil"]

\* The text of s before its first "/" (all of s when it has none).
RECURSIVE firstSegment(_)
firstSegment(s) ==
    IF s = <<>> \/ s[1] = "/" THEN <<>> ELSE <<s[1]>> \o firstSegment(Tail(s))

\* validOptionalPort: "" or ":" followed by digits only.
validOptionalPort(port) ==
    \/ port = <<>>
    \/ port[1] = ":" /\ \A i \in 2..Len(port) : isDigit(port, i)

\* parseHost, for a host that is no IPv6 literal.
parseHost(host) ==
    LET i == LastIndex(host, ":")
    IN  IF i # 0 /\ ~validOptionalPort(Drop(host, i - 1))
        THEN Fail("invalid port after host")
        ELSE Ok(host)

EmptyURL == [Scheme |-> <<>>, Opaque |-> <<>>, Host |-> <<>>, Path |-> <<>>]

URLParse(rawURL) ==
    LET sc        == getScheme(rawURL, 1)
        rest      == sc.path
        rooted    == HasPrefix(rest, <<"/">>)
        hasAuth   == (sc.scheme # <<>> \/ ~HasPrefix(rest, <<"/", "/", "/">>))
                        /\ HasPrefix(rest, <<"/", "/">>)
        afterAuth == Drop(rest, 2)
        authority == firstSegment(afterAuth)
        host      == parseHost(authority)
        path      == IF hasAuth THEN Drop(afterAuth, Len(authority)) ELSE rest
    IN  IF sc.err # "nil" THEN Fail(sc.err)
        ELSE IF ~rooted /\ sc.scheme # <<>>
        THEN Ok([EmptyURL EXCEPT !.Scheme = sc.scheme, !.Opaque = rest])
        ELSE IF ~rooted /\ Contains(firstSegment(rest), ":")
        THEN Fail("first path segment in URL cannot contain colon")
        ELSE IF hasAuth /\ host.err # "nil" THEN Fail(host.err)
        ELSE Ok([EmptyURL EXCEPT !.Scheme = sc.scheme,
                                 !.Host = IF hasAuth THEN host.val ELSE <<>>,
                                 !.Path = path])

\* ---------------------------------------------------------- the process
\* The names the program looks up.
Names == {"A", "B"}

\* Values longer than MaxLen that the environment may hold.
ScenarioValues ==
    { <<"9", "0", "9", "0">>, <<"a", "b", "c">>, <<"2", "5", "0", "m", "s">>,
      <<"1", "h", "3", "0", "m">>, <<"1", "0", ":", "0", "4">>,
      <<"2", "5", ":", "0", "0">>,
      <<"h", ":", "/", "/", "x", ":", "1", "/", "p">>,
      <<"/", "/", "x", ":", "s">> }

EnvValues == Strs(MaxLen) \cup ScenarioValues

\* The arguments the program passes.
IntDefaults == {8080, -1}
DurationDefaults == {0, 5000}
StringDefaults == {<<>>, <<"d">>}
URLDefaults == {<<>>, <<"s", ":", "1">>, <<":">>}
\* Time's format and value arguments: for each of the layouts "1" and
\* "15:04", a value that parses and one that does not.
TimeArgs ==
    { << <<"1">>, <<"1">> >>,
      << <<"1">>, <<"x">> >>,
      << <<"1", "5", ":", "0", "4">>, <<"1", "0", ":", "0", "4">> >>,
      << <<"1", "5", ":", "0", "4">>, <<"1">> >> }

VARIABLES
    env,     \* the process environment: the variables that are set, each
             \* with its value (a variable may be set to the empty string)
    hist,    \* the lookup calls made so far, each with how it ended
    trace,   \* what the process has written and done: log lines, exit, panic
    status,  \* "running", "exited" (os.Exit) or "panicked"
    registry,  \* deferred registration: the resolvers, in registration order
    cells,     \* deferred registration: the destination cells' contents
    ran,       \* deferred registration: the resolvers Parse has invoked
    parsed     \* deferred registration: whether Parse has been called

vars == <<env, hist, trace, status, registry, cells, ran, parsed>>

\* os.Getenv: the value of the variable, "" when it is not set.
Getenv(name) == IF name \in DOMAIN env THEN env[name] ELSE <<>>

\* How a call ends: it returns val, or it exits with status val, or it
\* panics with val; events is what it writes and does on the way, in order.
Returns(v) == [kind |-> "return", val |-> v, events |-> <<>>]

\* Mutant: the process exits without the diagnostic line.
LogExit_Silent(name, err) ==
    [kind |-> "exit", val |-> 1, events |-> << <<"exit", 1>> >>]

\* log.Println(name, err); os.Exit(1)
LogExit(name, err) ==
    [kind |-> "exit", val |-> 1,
     events |-> << <<"log", name, err>>, <<"exit", 1>> >>]

\* panic(err)
Panics(err) == [kind |-> "panic", val |-> err, events |-> << <<"panic", err>> >>]

\* Mutant: a variable set to "" is parsed instead of being taken as unset.
EnvInt_LookupEnv(name, value) ==
    LET s == Getenv(name)
        r == Atoi(s)
    IN  IF name \in DOMAIN env
        THEN IF r.err # "nil" THEN LogExit(name, r.err) ELSE Returns(r.val)
        ELSE Returns(value)

\* Mutant: the parse error is logged and the call goes on to return.
EnvInt_NoExit(name, value) ==
    LET s == Getenv(name)
        r == Atoi(s)
    IN  IF s # <<>>
        THEN [kind |-> "return", val |-> r.val,
              events |-> IF r.err # "nil" THEN << <<"log", name, r.err>> >>
                         ELSE <<>>]
        ELSE Returns(value)

\* func Int(name string, value int) int
EnvInt(name, value) ==
    LET s == Getenv(name)
        r == Atoi(s)
    IN  IF s # <<>>
        THEN IF r.err # "nil" THEN LogExit(name, r.err) ELSE Returns(r.val)
        ELSE Returns(value)

\* Mutant: the parsed value is dropped and the default returned.
Duration_KeepsDefault(name, value) ==
    LET s == Getenv(name)
        r == ParseDuration(s)
    IN  IF s # <<>> /\ r.err # "nil" THEN LogExit(name, r.err)
        ELSE Returns(value)

\* func Duration(name string, value time.Duration) time.Duration
Duration(name, value) ==
    LET s == Getenv(name)
        r == ParseDuration(s)
    IN  IF s # <<>>
        THEN IF r.err # "nil" THEN LogExit(name, r.err) ELSE Returns(r.val)
        ELSE Returns(value)

\* Mutant: the environment is consulted before the default is parsed.
Time_EnvFirst(name, format, value) ==
    LET d == TimeParse(format, value)
        s == Getenv(name)
        r == TimeParse(format, s)
    IN  IF s # <<>>
        THEN IF r.err # "nil" THEN LogExit(name, r.err) ELSE Returns(r.val)
        ELSE IF d.err # "nil" THEN Panics(d.err)
        ELSE Returns(d.val)

\* func Time(name, format, value string) time.Time
Time(name, format, value) ==
    LET d == TimeParse(format, value)
        s == Getenv(name)
        r == TimeParse(format, s)
    IN  IF d.err # "nil" THEN Panics(d.err)
        ELSE IF s # <<>>
        THEN IF r.err # "nil" THEN LogExit(name, r.err) ELSE Returns(r.val)
        ELSE Returns(d.val)

\* Mutant: a malformed environment value panics like a malformed default.
URL_PanicsOnEnv(name, value) ==
    LET d == URLParse(value)
        s == Getenv(name)
        r == URLParse(s)
    IN  IF d.err # "nil" THEN Panics(d.err)
        ELSE IF s # <<>>
        THEN IF r.err # "nil" THEN Panics(r.err) ELSE Returns(r.val)
        ELSE Returns(d.val)

\* func URL(name string, value string) *url.URL
URL(name, value) ==
    LET d == URLParse(value)
        s == Getenv(name)
        r == URLParse(s)
    IN  IF d.err # "nil" THEN Panics(d.err)
        ELSE IF s # <<>>
        THEN IF r.err # "nil" THEN LogExit(name, r.err) ELSE Returns(r.val)
        ELSE Returns(d.val)

\* Mutant: the variable's value is returned even when it is empty.
String_NoDefault(name, value) == Returns(Getenv(name))

\* func String(name string, value string) string
String(name, value) ==
    LET s == Getenv(name)
    IN  IF s # <<>> THEN Returns(s) ELSE Returns(value)

\* The environments a process starts in: A is unset or holds any value of
\* EnvValues, B is unset or holds "1s".
Environments ==
    { e \in UNION {[D -> EnvValues] : D \in SUBSET Names} :
        "B" \in DOMAIN e => e["B"] = <<"1", "s">> }

Init ==
    /\ env \in Environments
    /\ hist = <<>>
    /\ trace = <<>>
    /\ status = "running"
    /\ registry = <<>>
    /\ cells = <<>>
    /\ ran = <<>>
    /\ parsed = FALSE

\* Mutant: a lookup unsets the variable it has read.
Call_Unsetenv(fn, args, out) ==
    /\ status = "running"
    /\ Len(hist) < MaxCalls
    /\ hist' = Append(hist, [fn |-> fn, args |-> args,
                             kind |-> out.kind, val |-> out.val])
    /\ trace' = trace \o out.events
    /\ status' = CASE out.kind = "return" -> "running"
                   [] out.kind = "exit"   -> "exited"
                   [] out.kind = "panic"  -> "panicked"
    /\ env' = [n \in DOMAIN env \ {args[1]} |-> env[n]]
    /\ UNCHANGED <<registry, cells, ran, parsed>>

\* One call of a lookup function by the running program.  The environment
\* is only read.
Call(fn, args, out) ==
    /\ status = "running"
    /\ Len(hist) < MaxCalls
    /\ hist' = Append(hist, [fn |-> fn, args |-> args,
                             kind |-> out.kind, val |-> out.val])
    /\ trace' = trace \o out.events
    /\ status' = CASE out.kind = "return" -> "running"
                   [] out.kind = "exit"   -> "exited"
                   [] out.kind = "panic"  -> "panicked"
    /\ UNCHANGED <<env, registry, cells, ran, parsed>>

CallInt ==
    \E name \in Names, value \in IntDefaults :
        Call("Int", <<name, value>>, EnvInt(name, value))

CallDuration ==
    \E name \in Names, value \in DurationDefaults :
        Call("Duration", <<name, value>>, Duration(name, value))

CallTime ==
    \E name \in Names, a \in TimeArgs :
        Call("Time", <<name, a[1], a[2]>>, Time(name, a[1], a[2]))

CallURL ==
    \E name \in Names, value \in URLDefaults :
        Call("URL", <<name, value>>, URL(name, value))

CallString ==
    \E name \in Names, value \in StringDefaults :
        Call("String", <<name, value>>, String(name, value))

Next == CallInt \/ CallDuration \/ CallTime \/ CallURL \/ CallString

Spec == Init /\ [][Next]_vars

\* ------------------------------------------------- deferred registration
\* The deferred-registration variant of the package: Int and String hand out
\* a cell holding the default and append a resolver to the registry; Parse
\* runs every resolver and exits if one of them failed.

\* Mutant: a failed parse overwrites the cell with the parser's zero.
intResolver_Clobbers(name, cur) ==
    LET s == Getenv(name)
        r == Atoi(s)
    IN  IF s = <<>> THEN [cell |-> cur, ok |-> TRUE, events |-> <<>>]
        ELSE [cell |-> r.val, ok |-> r.err = "nil",
              events |-> IF r.err # "nil" THEN << <<"log", name, r.err>> >>
                         ELSE <<>>]

\* The resolver of a cell registered by Int: what it leaves in the cell,
\* whether it succeeded, and what it logged.
intResolver(name, cur) ==
    LET s == Getenv(name)
        r == Atoi(s)
    IN  IF s = <<>> THEN [cell |-> cur, ok |-> TRUE, events |-> <<>>]
        ELSE IF r.err # "nil"
        THEN [cell |-> cur, ok |-> FALSE, events |-> << <<"log", name, r.err>> >>]
        ELSE [cell |-> r.val, ok |-> TRUE, events |-> <<>>]

\* The resolver of a cell registered by String.
stringResolver(name, cur) ==
    LET s == Getenv(name)
    IN  [cell |-> IF s # <<>> THEN s ELSE cur, ok |-> TRUE, events |-> <<>>]

resolve(r, cur) ==
    IF r.type = "Int" THEN intResolver(r.name, cur)
    ELSE stringResolver(r.name, cur)

\* Mutant: the loop stops at the first resolver that fails.
RECURSIVE runResolvers_ShortCircuit(_, _)
runResolvers_ShortCircuit(i, acc) ==
    IF i > Len(registry) \/ ~acc.ok THEN acc
    ELSE LET res == IF registry[i].type = "Int"
                    THEN intResolver(registry[i].name, acc.cells[i])
                    ELSE stringResolver(registry[i].name, acc.cells[i])
         IN  runResolvers_ShortCircuit(i + 1,
                 [cells  |-> [acc.cells EXCEPT ![i] = res.cell],
                  ok     |-> acc.ok /\ res.ok,
                  events |-> acc.events \o res.events,
                  ran    |-> Append(acc.ran, i)])

\* Parse's loop from resolver i on: acc holds the cells, whether every
\* resolver so far succeeded, the lines logged and the resolvers invoked.
RECURSIVE runResolvers(_, _)
runResolvers(i, acc) ==
    IF i > Len(registry) THEN acc
    ELSE LET res == resolve(registry[i], acc.cells[i])
         IN  runResolvers(i + 1,
                 [cells  |-> [acc.cells EXCEPT ![i] = res.cell],
                  ok     |-> acc.ok /\ res.ok,
                  events |-> acc.events \o res.events,
                  ran    |-> Append(acc.ran, i)])

\* Int(name, default) and String(name, default) of the deferred variant.
Register(type, name, default) ==
    /\ status = "running"
    /\ ~parsed
    /\ Len(registry) < MaxRegs
    /\ registry' = Append(registry, [type |-> type, name |-> name,
                                     default |-> default])
    /\ cells' = Append(cells, default)
    /\ UNCHANGED <<env, hist, trace, status, ran, parsed>>

RegisterInt ==
    \E name \in Names, default \in IntDefaults : Register("Int", name, default)

RegisterString ==
    \E name \in Names, default \in StringDefaults :
        Register("String", name, default)

\* Parse(): every resolver is run, then the process exits if one failed.
Parse ==
    /\ status = "running"
    /\ ~parsed
    /\ LET acc == runResolvers(1, [cells |-> cells, ok |-> TRUE,
                                   events |-> <<>>, ran |-> <<>>])
       IN  /\ cells' = acc.cells
           /\ ran' = acc.ran
           /\ trace' = IF acc.ok THEN trace \o acc.events
                       ELSE trace \o acc.events \o << <<"exit", 1>> >>
           /\ status' = IF acc.ok THEN "running" ELSE "exited"
    /\ parsed' = TRUE
    /\ UNCHANGED <<env, hist, registry>>

NextDeferred == RegisterInt \/ RegisterString \/ Parse

SpecDeferred == Init /\ [][NextDeferred]_vars

\* ------------------------------------------------------------- properties
IsLog(e) == e[1] = "log"

\* The diagnostic lines written so far.
LogLines == SelectSeq(trace, IsLog)

\* The value of the variable the i-th call names.
Looked(i) == Getenv(hist[i].args[1])

Last == Len(hist)

\* What a failed lookup leaves behind: one line naming the variable and the
\* error, then exit status 1.
LoggedThenExited(name, err) ==
    trace = << <<"log", name, err>>, <<"exit", 1>> >>

\* C1: when the named variable is unset or set to "", Int, Duration and
\* String return the default argument, Time and URL return the parsed
\* default string, a variable set to "" is treated as an unset one, nothing
\* is logged and the process does not exit.
C1_UnsetOrEmptyReturnsDefault ==
    \A i \in 1..Len(hist) :
        LET c == hist[i]
        IN  (c.args[1] \notin DOMAIN env \/ env[c.args[1]] = <<>>) =>
              /\ c.fn \in {"Int", "Duration", "String"} =>
                    c.kind = "return" /\ c.val = c.args[2]
              /\ (c.fn = "Time" /\ TimeParse(c.args[2], c.args[3]).err = "nil") =>
                    c.kind = "return" /\ c.val = TimeParse(c.args[2], c.args[3]).val
              /\ (c.fn = "URL" /\ URLParse(c.args[2]).err = "nil") =>
                    c.kind = "return" /\ c.val = URLParse(c.args[2]).val
              /\ c.kind # "exit"
              /\ i = Last => LogLines = <<>> /\ status # "exited"

\* A is set to "", B is unset, and a Time lookup of A and an Int lookup of B
\* have both returned.
C1_Witness ==
    /\ "A" \in DOMAIN env /\ env["A"] = <<>> /\ "B" \notin DOMAIN env
    /\ Len(hist) = 2
    /\ hist[1].fn = "Time" /\ hist[1].args[1] = "A" /\ hist[1].kind = "return"
    /\ hist[2].fn = "Int" /\ hist[2].args[1] = "B" /\ hist[2].kind = "return"
    /\ hist[2].val = hist[2].args[2]

\* C2: when the named variable holds a value that parses as the target type,
\* the value a lookup returns is the parser's value of that string, whatever
\* the default; it is returned whenever the default itself is well formed.
C2_ValidValueIsParsed ==
    \A i \in 1..Len(hist) :
        LET c == hist[i]
            s == Looked(i)
        IN  s # <<>> =>
              /\ (c.fn = "Int" /\ Atoi(s).err = "nil") =>
                    c.kind = "return" /\ c.val = Atoi(s).val
              /\ (c.fn = "Duration" /\ ParseDuration(s).err = "nil") =>
                    c.kind = "return" /\ c.val = ParseDuration(s).val
              /\ c.fn = "String" => c.kind = "return" /\ c.val = s
              /\ (c.fn = "Time" /\ TimeParse(c.args[2], s).err = "nil") =>
                    /\ c.kind # "exit"
                    /\ TimeParse(c.args[2], c.args[3]).err = "nil" => c.kind = "return"
                    /\ c.kind = "return" => c.val = TimeParse(c.args[2], s).val
              /\ (c.fn = "URL" /\ URLParse(s).err = "nil") =>
                    /\ c.kind # "exit"
                    /\ URLParse(c.args[2]).err = "nil" => c.kind = "return"
                    /\ c.kind = "return" => c.val = URLParse(s).val

\* A is "9090", Int("A", 8080) has returned 9090 and String("A", "d") has
\* returned "9090".
C2_Witness ==
    /\ Getenv("A") = <<"9", "0", "9", "0">>
    /\ \E i, j \in 1..Len(hist) :
          /\ hist[i].fn = "Int" /\ hist[i].args = <<"A", 8080>>
          /\ hist[i].kind = "return" /\ hist[i].val = 9090
          /\ hist[j].fn = "String" /\ hist[j].args = <<"A", <<"d">>>>
          /\ hist[j].kind = "return"

\* C3: when the named variable holds a non-empty string that does not parse,
\* Int and Duration log one line with the name and the error, exit with
\* status 1 and return nothing.
C3_IntDurationLogAndExit ==
    \A i \in 1..Len(hist) :
        LET c == hist[i]
            s == Looked(i)
            r == IF c.fn = "Int" THEN Atoi(s) ELSE ParseDuration(s)
        IN  (c.fn \in {"Int", "Duration"} /\ s # <<>> /\ r.err # "nil") =>
              /\ c.kind = "exit" /\ c.val = 1
              /\ i = Last
              /\ status = "exited"
              /\ LoggedThenExited(c.args[1], r.err)

\* A is "abc" and Int("A", 8080) has ended the process.
C3_Witness ==
    /\ Getenv("A") = <<"a", "b", "c">>
    /\ Len(hist) = 1
    /\ hist[1].fn = "Int" /\ hist[1].args = <<"A", 8080>>
    /\ hist[1].kind = "exit"
    /\ status = "exited"

\* C4: Time and URL called with a default string that does not parse panic,
\* log nothing and do not exit with status 1, whether the variable is
\* unset, valid or malformed.
C4_MalformedDefaultPanics ==
    \A i \in 1..Len(hist) :
        LET c == hist[i]
            d == IF c.fn = "Time" THEN TimeParse(c.args[2], c.args[3])
                 ELSE URLParse(c.args[2])
        IN  (c.fn \in {"Time", "URL"} /\ d.err # "nil") =>
              /\ c.kind = "panic" /\ c.val = d.err
              /\ i = Last
              /\ status = "panicked"
              /\ trace = << <<"panic", d.err>> >>

\* A holds a string that is no URL, and URL("A", ":") has panicked.
C4_Witness ==
    /\ Getenv("A") # <<>> /\ URLParse(Getenv("A")).err # "nil"
    /\ Len(hist) >= 1
    /\ hist[Last].fn = "URL" /\ hist[Last].args = <<"A", <<":">>>>
    /\ hist[Last].kind = "panic"

\* C5: Time and URL called with a well-formed default, the variable holding
\* a non-empty string that does not parse, log one line with the name and
\* the error and exit with status 1; they neither panic nor return.
C5_TimeURLLogAndExit ==
    \A i \in 1..Len(hist) :
        LET c == hist[i]
            s == Looked(i)
            d == IF c.fn = "Time" THEN TimeParse(c.args[2], c.args[3])
                 ELSE URLParse(c.args[2])
            r == IF c.fn = "Time" THEN TimeParse(c.args[2], s) ELSE URLParse(s)
        IN  (c.fn \in {"Time", "URL"} /\ d.err = "nil" /\ s # <<>> /\ r.err # "nil") =>
              /\ c.kind = "exit" /\ c.val = 1
              /\ i = Last
              /\ status = "exited"
              /\ LoggedThenExited(c.args[1], r.err)

\* A is "25:00" and Time("A", "15:04", "10:04") has ended the process.
C5_Witness ==
    /\ Getenv("A") = <<"2", "5", ":", "0", "0">>
    /\ Len(hist) >= 1
    /\ hist[Last].fn = "Time"
    /\ hist[Last].args =
          <<"A", <<"1", "5", ":", "0", "4">>, <<"1", "0", ":", "0", "4">>>>
    /\ hist[Last].kind = "exit"
    /\ LogLines = << <<"log", "A", "hour out of range">> >>

\* C6: String always returns: the variable's value when it is not empty,
\* the default otherwise; it never logs, exits or panics.
C6_StringNeverFails ==
    \A i \in 1..Len(hist) :
        LET c == hist[i]
        IN  c.fn = "String" =>
              /\ c.kind = "return"
              /\ c.val = IF Looked(i) # <<>> THEN Looked(i) ELSE c.args[2]
              /\ i = Last => trace = <<>> /\ status = "running"

\* String has returned the value of B and then the default for A, which is
\* set to "".
C6_Witness ==
    /\ Len(hist) = 2
    /\ "A" \in DOMAIN env /\ env["A"] = <<>>
    /\ hist[1].fn = "String" /\ hist[1].args[1] = "B" /\ hist[1].val = <<"1", "s">>
    /\ hist[2].fn = "String" /\ hist[2].args = <<"A", <<"d">>>>
    /\ hist[2].val = <<"d">>

C10_OneLineIffExit ==
    /\ (Len(LogLines) = 1) <=> (status = "exited")
    /\ Len(LogLines) <= 1
    /\ status = "exited" =>
          /\ hist # <<>> /\ hist[Last].kind = "exit" /\ hist[Last].val = 1
          /\ Len(trace) = 2
          /\ trace[1][1] = "log" /\ trace[1][2] = hist[Last].args[1]
          /\ trace[2] = <<"exit", 1>>
    /\ \A i \in 1..Len(hist) :
          /\ (hist[i].kind = "exit") <=> (i = Last /\ status = "exited")
          /\ (hist[i].kind = "return" /\ i = Last) => trace = <<>>
          /\ hist[i].kind = "panic" => LogLines = <<>>

\* A URL lookup has returned and the Duration lookup after it has logged
\* and exited.
C10_Witness ==
    /\ Len(hist) = 2
    /\ hist[1].fn = "URL" /\ hist[1].kind = "return"
    /\ hist[2].fn = "Duration" /\ hist[2].kind = "exit"
    /\ Len(trace) = 2

\* Whether resolver r finds a value it cannot parse.
Invalid(r) ==
    r.type = "Int" /\ Getenv(r.name) # <<>> /\ Atoi(Getenv(r.name)).err # "nil"

\* What the cell of resolver r holds once resolved.
Resolved(r) ==
    LET s == Getenv(r.name)
    IN  IF s = <<>> THEN r.default
        ELSE IF r.type = "String" THEN s
        ELSE IF Atoi(s).err = "nil" THEN Atoi(s).val
        ELSE r.default

InvalidRegs == {i \in 1..Len(registry) : Invalid(registry[i])}

\* C8: Parse invokes every resolver once, in registration order; with K
\* registrations whose value is invalid, K lines are logged, in that order,
\* and if K >= 1 the process exits with status 1 after the last of them; if
\* K = 0 Parse returns and every cell holds its resolved value.
C8_ParseAggregates ==
    parsed =>
      /\ Len(ran) = Len(registry)
      /\ \A i \in 1..Len(ran) : ran[i] = i
      /\ Len(LogLines) = Cardinality(InvalidRegs)
      /\ \A k \in 1..Len(LogLines) :
            \E i \in InvalidRegs :
                /\ Cardinality({j \in InvalidRegs : j <= i}) = k
                /\ LogLines[k][2] = registry[i].name
      /\ InvalidRegs # {} =>
            /\ status = "exited"
            /\ Len(trace) = Cardinality(InvalidRegs) + 1
            /\ trace[Len(trace)] = <<"exit", 1>>
      /\ InvalidRegs = {} =>
            /\ status = "running"
            /\ trace = <<>>
            /\ \A i \in 1..Len(registry) : cells[i] = Resolved(registry[i])

\* Two registrations, the first of them invalid, and Parse has run both.
C8_Witness ==
    /\ parsed
    /\ Len(registry) = 2
    /\ Invalid(registry[1]) /\ ~Invalid(registry[2])
    /\ ran = <<1, 2>>
    /\ status = "exited"

\* C9: a cell holds the default from its registration until Parse runs;
\* after Parse it holds the parsed value when the variable is set and valid,
\* and the default when it is unset or invalid, in which case Parse failed.
C9_CellInvariant ==
    \A i \in 1..Len(registry) :
        /\ ~parsed => cells[i] = registry[i].default
        /\ parsed => cells[i] = Resolved(registry[i])
        /\ (parsed /\ Invalid(registry[i])) =>
              status = "exited" /\ cells[i] = registry[i].default

\* Int("A", 8080) with A = "abc" and Int("B", -1) with B unset: after Parse
\* the process has exited, and both cells hold their defaults.
C9_Witness ==
    /\ parsed
    /\ Getenv("A") = <<"a", "b", "c">> /\ "B" \notin DOMAIN env
    /\ Len(registry) = 2
    /\ registry[1] = [type |-> "Int", name |-> "A", default |-> 8080]
    /\ registry[2] = [type |-> "Int", name |-> "B", default |-> 0 - 1]
    /\ cells = <<8080, 0 - 1>>
    /\ Len(LogLines) = 1
    /\ status = "exited"
=============================================================================
